---------------------------- MODULE Spec2Model ----------------------------
(***************************************************************************)
(* Verification model of pga-dk's src/utils/db_utils.py (ingestors,        *)
(* temporal feature engine, training-row builder) over the tables of       *)
(* src/utils/schema.py.                                                    *)
(*                                                                         *)
(* Conventions.                                                            *)
(*  - A text value is a tuple of one-character strings ("T5" is            *)
(*    <<"T","5">>), so that the regular expressions of the code can be     *)
(*    computed character by character.  Names that the code only compares  *)
(*    (players, tournaments, courses) are atomic strings.                  *)
(*  - A nullable value is Null (NaN / None / SQL NULL) or Some(v).         *)
(*  - A calendar date is a day number; date arithmetic is in days.         *)
(*  - A table is the set of its rows: schema.py gives every table a        *)
(*    primary key, so no table ever holds the same row twice.  A DataFrame *)
(*    is a sequence of rows.                                               *)
(*  - Columns that no operation reads back (TOURN_ID, ROUNDS:1..4,         *)
(*    OFFICIAL_MONEY) are left out of the rows.                            *)
(*  - The odds table has the column ENDING_DATE that import_historical_odds *)
(*    and build_training_rows read and write (db_utils.py:517, 833), next   *)
(*    to the columns and the primary key of schema.py.                      *)
(*  - FEDEX_CUP_POINTS is a number.                                         *)
(*  - An odds page is the table that import_historical_odds selects; the    *)
(*    size thresholds of that selection (db_utils.py:360-362) are not part  *)
(*    of the model, whose pages are a few rows long.                        *)
(***************************************************************************)
EXTENDS Integers, Sequences, FiniteSets, TLC

VARIABLES
    tournaments,   \* table tournaments (schema.py:5-22)
    stats,         \* table stats       (schema.py:24-59)
    odds,          \* table odds        (schema.py:61-69, plus ENDING_DATE)
    call,          \* the most recent call: operation, outcome, return value
    rerun          \* "pending" between an ingestor's run and its re-run

vars == <<tournaments, stats, odds, call, rerun>>

db == <<tournaments, stats, odds>>

---------------------------------------------------------------------------
(* Values *)

Null == << >>

Some(v) == <<v>>

Get(o) == o[1]

Digits == {"0", "1", "2", "3", "4", "5", "6", "7", "8", "9"}

DigitVal(c) ==
    CASE c = "0" -> 0 [] c = "1" -> 1 [] c = "2" -> 2 [] c = "3" -> 3
      [] c = "4" -> 4 [] c = "5" -> 5 [] c = "6" -> 6 [] c = "7" -> 7
      [] c = "8" -> 8 [] c = "9" -> 9

\* int() / float() of a run of digits.
RECURSIVE ToInt(_)
ToInt(ds) ==
    IF ds = << >> THEN 0
    ELSE 10 * ToInt(SubSeq(ds, 1, Len(ds) - 1)) + DigitVal(ds[Len(ds)])

\* End of the maximal run of digits of s that starts at index i.
RECURSIVE RunEnd(_, _)
RunEnd(s, i) ==
    IF i < Len(s) /\ s[i + 1] \in Digits THEN RunEnd(s, i + 1) ELSE i

SeqsUpTo(S, n) == UNION {[1..k -> S] : k \in 0..n}

Range(f) == {f[i] : i \in DOMAIN f}

\* The rows of a set in some fixed order (the order a SELECT returns them).
RECURSIVE SetToSeq(_)
SetToSeq(S) ==
    IF S = {} THEN << >>
    ELSE LET x == CHOOSE y \in S : TRUE IN <<x>> \o SetToSeq(S \ {x})

---------------------------------------------------------------------------
(* Result ingestor: update_tournament_results *)

Sentinel == 90

\* df["POS"].str.extract(r"(\d+)", expand=False): the first run of digits.
ExtractDigits(pos) ==
    IF \E i \in 1..Len(pos) : pos[i] \in Digits
    THEN LET i == CHOOSE k \in 1..Len(pos) :
                     /\ pos[k] \in Digits
                     /\ \A m \in 1..(k - 1) : pos[m] \notin Digits
         IN Some(SubSeq(pos, i, RunEnd(pos, i)))
    ELSE Null

\* Faulty variant of FinalPos: the integer made of all the digits of the text.
FinalPosAllDigits(pos) ==
    LET ds == SelectSeq(pos, LAMBDA c : c \in Digits)
    IN IF ds = << >> THEN Sentinel ELSE ToInt(ds)

\* .fillna(90).astype(int)
FinalPos(pos) ==
    LET m == ExtractDigits(pos)
    IN IF m = Null THEN Sentinel ELSE ToInt(Get(m))

\* The DataFrame built from the players of the response: rows without a
\* position are dropped, FINAL_POS is derived, the event's columns attached.
ResultsFrame(config, season, players) ==
    LET kept == SelectSeq(players, LAMBDA p : p.position # Null)
    IN [i \in 1..Len(kept) |->
          [SEASON           |-> season,
           ENDING_DATE      |-> config.date,
           TOURNAMENT       |-> config.name,
           COURSE           |-> config.course,
           PLAYER           |-> kept[i].displayName,
           POS              |-> Get(kept[i].position),
           FINAL_POS        |-> FinalPos(Get(kept[i].position)),
           FEDEX_CUP_POINTS |-> kept[i].points]]

\* Primary key of tournaments.
TournamentKey(r) == <<r.ENDING_DATE, r.TOURNAMENT, r.PLAYER>>

\* Faulty variant of ResultsAntiJoin: every row of df counts as new.
ResultsNoAntiJoin(df, table) == df

\* Anti-join of df against the keys already in the table.
ResultsAntiJoin(df, table) ==
    SelectSeq(df, LAMBDA r : TournamentKey(r) \notin {TournamentKey(x) : x \in table})

\* Faulty variant of PkViolation: a table without its primary key.
PkNotEnforced(table_keys, row_keys) == FALSE

\* new_df.to_sql(..., if_exists="append") into a table with a primary key:
\* the bulk insert fails as a whole when two rows would share a key.
\* table_keys are the keys in the table, row_keys the keys of the rows to insert.
PkViolation(table_keys, row_keys) ==
    \/ \E i, j \in DOMAIN row_keys : i # j /\ row_keys[i] = row_keys[j]
    \/ \E i \in DOMAIN row_keys : row_keys[i] \in table_keys

\* Faulty variant of ResultsPersist: the frame replaces the rows of the table
\* (if_exists="replace").
ResultsPersistReplace(table, config, season, players) ==
    LET df == ResultsFrame(config, season, players)
    IN [table |-> Range(df), outcome |-> "df", exc |-> "", ret |-> df]

\* The call once the players are read: frame, anti-join, insert.
ResultsPersist(table, config, season, players) ==
    LET df     == ResultsFrame(config, season, players)
        new_df == ResultsAntiJoin(df, table)
    IN IF PkViolation({TournamentKey(x) : x \in table},
                      [i \in DOMAIN new_df |-> TournamentKey(new_df[i])])
       THEN [table |-> table, outcome |-> "raised",
             exc |-> "IntegrityError", ret |-> << >>]
       ELSE [table |-> table \cup Range(new_df), outcome |-> "df",
             exc |-> "", ret |-> df]

\* Faulty variant of ResultsRun: no early return on an empty list of players.
ResultsRunNoEarlyReturn(table, config, season, response) ==
    IF response.kind = "request_failed"
    THEN [table |-> table, outcome |-> "none", exc |-> "", ret |-> << >>]
    ELSE IF response.kind \in {"bad_json", "no_data_path"}
    THEN [table |-> table, outcome |-> "raised", exc |-> "parse", ret |-> << >>]
    ELSE ResultsPersist(table, config, season, response.players)

\* Faulty variant of ResultsRun: a parsing failure is swallowed like a request
\* failure.
ResultsRunSwallow(table, config, season, response) ==
    IF response.kind \in {"request_failed", "bad_json", "no_data_path"}
    THEN [table |-> table, outcome |-> "none", exc |-> "", ret |-> << >>]
    ELSE IF response.players = << >>
    THEN [table |-> table, outcome |-> "none", exc |-> "", ret |-> << >>]
    ELSE ResultsPersist(table, config, season, response.players)

\* The whole call on a given table: the table it leaves and what it returns.
ResultsRun(table, config, season, response) ==
    IF response.kind = "request_failed"
    THEN [table |-> table, outcome |-> "none", exc |-> "", ret |-> << >>]
    ELSE IF response.kind \in {"bad_json", "no_data_path"}
    THEN [table |-> table, outcome |-> "raised", exc |-> "parse", ret |-> << >>]
    ELSE IF response.players = << >>
    THEN [table |-> table, outcome |-> "none", exc |-> "", ret |-> << >>]
    ELSE ResultsPersist(table, config, season, response.players)

UpdateTournamentResults(config, season, response) ==
    LET r == ResultsRun(tournaments, config, season, response)
    IN /\ tournaments' = r.table
       /\ call' = [op |-> "update_tournament_results",
                   arg |-> [config |-> config, season |-> season, response |-> response],
                   outcome |-> r.outcome, exc |-> r.exc, ret |-> r.ret]
       /\ UNCHANGED <<stats, odds>>

---------------------------------------------------------------------------
(* Stat ingestor: update_season_stats *)

\* The categories of stat_ids, the base category first.
Cats == <<"SGTTG", "SGOTT">>

base_stat == Cats[1]

NoCell == [rank |-> Null, value |-> Null]

\* get_stats: a failed fetch gives an empty frame that has the columns
\* PLAYER, RANK, VALUE; a fetched table gives pd.DataFrame(table), which has
\* no columns at all when the table has no rows.
get_stats(fetched) ==
    IF fetched.kind = "failed"
    THEN [columns |-> TRUE, rows |-> << >>]
    ELSE LET named == SelectSeq(fetched.rows, LAMBDA r : r.playerName # Null)
         IN [columns |-> named # << >>,
             rows |-> [i \in 1..Len(named) |->
                         [PLAYER |-> Get(named[i].playerName),
                          cell   |-> [rank |-> named[i].rank,
                                      value |-> named[i].value]]]]

\* stats_df.merge(df, on="PLAYER", how="outer"): left is a sequence of
\* [PLAYER, cells], right a category frame, cat the category it fills.
OuterMerge(left, right, cat) ==
    LET match(l) == SelectSeq(right, LAMBDA r : r.PLAYER = l.PLAYER)
        expand(l) ==
            IF match(l) = << >> THEN <<l>>
            ELSE [j \in 1..Len(match(l)) |->
                    [PLAYER |-> l.PLAYER,
                     cells  |-> [l.cells EXCEPT ![cat] = match(l)[j].cell]]]
        RECURSIVE Lefts(_)
        Lefts(k) == IF k = 0 THEN << >> ELSE Lefts(k - 1) \o expand(left[k])
        only == SelectSeq(right,
                    LAMBDA r : \A i \in DOMAIN left : left[i].PLAYER # r.PLAYER)
    IN Lefts(Len(left))
       \o [j \in 1..Len(only) |->
              [PLAYER |-> only[j].PLAYER,
               cells  |-> [c \in Range(Cats) |->
                             IF c = cat THEN only[j].cell ELSE NoCell]]]

\* The merge loop over stat_frames, starting from the base category.
RECURSIVE MergeFrom(_, _, _)
MergeFrom(acc, frames, k) ==
    IF k > Len(Cats) THEN acc
    ELSE MergeFrom(OuterMerge(acc, frames[Cats[k]].rows, Cats[k]), frames, k + 1)

MergedStats(year, frames) ==
    LET start == [i \in 1..Len(frames[base_stat].rows) |->
                    [PLAYER |-> frames[base_stat].rows[i].PLAYER,
                     cells  |-> [c \in Range(Cats) |->
                                   IF c = base_stat
                                   THEN frames[base_stat].rows[i].cell
                                   ELSE NoCell]]]
        merged == MergeFrom(start, frames, 2)
    IN [i \in 1..Len(merged) |->
          [SEASON |-> year, PLAYER |-> merged[i].PLAYER, cells |-> merged[i].cells]]

\* Primary key of stats.
StatsKey(r) == <<r.SEASON, r.PLAYER>>

\* Faulty variant of DeleteSeason: the rows of the season whose player is in
\* no other season are kept.
DeleteSeasonShared(table, year) ==
    {r \in table : \/ r.SEASON # year
                   \/ \A x \in table : x.SEASON # year => x.PLAYER # r.PLAYER}

\* DELETE FROM stats WHERE SEASON = year
DeleteSeason(table, year) == {r \in table : r.SEASON # year}

\* The whole call: fetched maps each category to what its request returned.
StatsRun(table, year, fetched) ==
    LET frames == [c \in Range(Cats) |-> get_stats(fetched[c])]
    IN IF \E c \in Range(Cats) : ~frames[c].columns
       THEN [table |-> table, outcome |-> "raised", exc |-> "KeyError", ret |-> << >>]
       ELSE LET stats_df == MergedStats(year, frames)
                kept     == DeleteSeason(table, year)
            IN IF PkViolation({StatsKey(x) : x \in kept},
                              [i \in DOMAIN stats_df |-> StatsKey(stats_df[i])])
               THEN [table |-> table, outcome |-> "raised",
                     exc |-> "IntegrityError", ret |-> << >>]
               ELSE [table |-> kept \cup Range(stats_df), outcome |-> "df",
                     exc |-> "", ret |-> stats_df]

UpdateSeasonStats(year, fetched) ==
    LET r == StatsRun(stats, year, fetched)
    IN /\ stats' = r.table
       /\ call' = [op |-> "update_season_stats",
                   arg |-> [year |-> year, fetched |-> fetched],
                   outcome |-> r.outcome, exc |-> r.exc, ret |-> r.ret]
       /\ UNCHANGED <<tournaments, odds>>

---------------------------------------------------------------------------
(* Odds ingestor: import_historical_odds *)

(* A cell of the PLAYER column is [text, isdate, date, cancelled]: its text   *)
(* (an atomic name), whether one of the two date patterns of the header test   *)
(* matches it, what parse_ending_date returns for it, and whether its lower    *)
(* case contains "cancelled".  A cell of the ODDS column is Null or Some(text).*)

RECURSIVE Gcd(_, _)
Gcd(a, b) == IF b = 0 THEN a ELSE Gcd(b, a % b)

\* Float division n / d: the exact ratio in lowest terms, 1/0 for inf, and
\* Null for NaN (0/0), which the store holds as NULL.
Ratio(n, d) ==
    IF d = 0 THEN (IF n = 0 THEN Null ELSE Some([num |-> 1, den |-> 0]))
    ELSE Some([num |-> n \div Gcd(n, d), den |-> d \div Gcd(n, d)])

\* .str.replace(",", "")
RemoveCommas(s) == SelectSeq(s, LAMBDA c : c # ",")

\* .str.extract(r"(\d+)/(\d+)"): the leftmost digits "/" digits.
FractionAt(s, i) ==
    /\ s[i] \in Digits
    /\ RunEnd(s, i) + 2 <= Len(s)
    /\ s[RunEnd(s, i) + 1] = "/"
    /\ s[RunEnd(s, i) + 2] \in Digits

ExtractFraction(s) ==
    IF \E i \in 1..Len(s) : FractionAt(s, i)
    THEN LET i == CHOOSE k \in 1..Len(s) :
                     FractionAt(s, k) /\ \A m \in 1..(k - 1) : ~FractionAt(s, m)
             e == RunEnd(s, i)
         IN Some([n |-> SubSeq(s, i, e), d |-> SubSeq(s, e + 2, RunEnd(s, e + 2))])
    ELSE Null

\* .astype(float).apply(lambda x: x[0] / x[1], axis=1)
VegasOdds(odds_text) ==
    LET m == ExtractFraction(RemoveCommas(odds_text))
    IN IF m = Null THEN Null ELSE Ratio(ToInt(Get(m).n), ToInt(Get(m).d))

\* The header test of the block scan at row k (rows are numbered from 1).
IsHeader(df, k) ==
    /\ df[k].ODDS = Null
    /\ df[k + 1].ODDS = Null
    /\ df[k + 2].PLAYER.isdate

\* Faulty variant of CollectBlock: the loop does not stop at the next header.
RECURSIVE CollectBlockNoBreak(_, _, _, _, _)
CollectBlockNoBreak(df, k, tourn_name, end_date, final_rows) ==
    IF ~(k <= Len(df) - 2)
    THEN [k |-> k, rows |-> final_rows]
    ELSE CollectBlockNoBreak(df, k + 1, tourn_name, end_date,
            IF df[k].ODDS # Null
            THEN Append(final_rows,
                        [TOURNAMENT |-> tourn_name, ENDING_DATE |-> end_date,
                         PLAYER |-> df[k].PLAYER.text, ODDS |-> Get(df[k].ODDS)])
            ELSE final_rows)

\* The inner loop: collect the rows with odds until the next header.
RECURSIVE CollectBlock(_, _, _, _, _)
CollectBlock(df, k, tourn_name, end_date, final_rows) ==
    IF ~(k <= Len(df) - 2) \/ IsHeader(df, k)
    THEN [k |-> k, rows |-> final_rows]
    ELSE CollectBlock(df, k + 1, tourn_name, end_date,
            IF df[k].ODDS # Null
            THEN Append(final_rows,
                        [TOURNAMENT |-> tourn_name, ENDING_DATE |-> end_date,
                         PLAYER |-> df[k].PLAYER.text, ODDS |-> Get(df[k].ODDS)])
            ELSE final_rows)

\* The outer loop; last is <<last_tourn_name, last_end_date>> or Null.
RECURSIVE ScanBlocks(_, _, _, _)
ScanBlocks(df, k, last, final_rows) ==
    IF ~(k <= Len(df) - 4) THEN final_rows
    ELSE IF ~IsHeader(df, k) THEN ScanBlocks(df, k + 1, last, final_rows)
    ELSE LET tourn_name == df[k].PLAYER.text
             end_date   == df[k + 2].PLAYER.date
         IN IF df[k + 3].PLAYER.cancelled
            THEN ScanBlocks(df, k + 4, last, final_rows)
            ELSE IF last = Some(<<tourn_name, end_date>>)
            THEN ScanBlocks(df, k + 1, last, final_rows)
            ELSE LET b == CollectBlock(df, k + 4, tourn_name, end_date, final_rows)
                 IN ScanBlocks(df, b.k, Some(<<tourn_name, end_date>>), b.rows)

\* str.replace(r"\s\*Winner\*", ""), whitespace collapse and strip.
StripWinner(name) == IF name = "P1 *Winner*" THEN "P1" ELSE name

PLAYER_NAME_MAP(name) == IF name = "Cheng-Tsung Pan" THEN "C.T. Pan" ELSE name

TOURNAMENT_NAME_MAP(name) == IF name = "US Open" THEN "U.S. Open" ELSE name

\* str.contains("Presidents Cup|Ryder Cup", case=False)
IsTeamEvent(name) == name \in {"Presidents Cup", "Ryder Cup"}

\* clean_df / final_df: the collected rows with the derived columns, team
\* events removed.
OddsFrame(season, final_rows) ==
    LET clean == [i \in 1..Len(final_rows) |->
                    [SEASON      |-> season,
                     TOURNAMENT  |-> TOURNAMENT_NAME_MAP(final_rows[i].TOURNAMENT),
                     ENDING_DATE |-> final_rows[i].ENDING_DATE,
                     PLAYER      |-> PLAYER_NAME_MAP(StripWinner(final_rows[i].PLAYER)),
                     ODDS        |-> final_rows[i].ODDS,
                     VEGAS_ODDS  |-> VegasOdds(final_rows[i].ODDS)]]
    IN SelectSeq(clean, LAMBDA r : ~IsTeamEvent(r.TOURNAMENT))

\* Primary key of odds.
OddsKey(r) == <<r.SEASON, r.TOURNAMENT, r.PLAYER, r.ODDS>>

\* The columns the anti-join compares.
OddsJoinKey(r) == <<r.SEASON, r.TOURNAMENT, r.ENDING_DATE, r.PLAYER>>

OddsAntiJoin(final_df, table) ==
    SelectSeq(final_df, LAMBDA r : OddsJoinKey(r) \notin {OddsJoinKey(x) : x \in table})

\* The whole call on a given table.
OddsRun(table, season, page) ==
    IF page.kind = "no_table"
    THEN [table |-> table, outcome |-> "raised", exc |-> "ValueError", ret |-> << >>]
    ELSE LET final_rows == ScanBlocks(page.rows, 1, Null, << >>)
         IN IF final_rows = << >>
            THEN [table |-> table, outcome |-> "raised", exc |-> "KeyError",
                  ret |-> << >>]
            ELSE LET final_df   == OddsFrame(season, final_rows)
                     deduped_df == OddsAntiJoin(final_df, table)
                 IN IF PkViolation({OddsKey(x) : x \in table},
                                   [i \in DOMAIN deduped_df |-> OddsKey(deduped_df[i])])
                    THEN [table |-> table, outcome |-> "raised",
                          exc |-> "IntegrityError", ret |-> << >>]
                    ELSE [table |-> table \cup Range(deduped_df), outcome |-> "df",
                          exc |-> "", ret |-> final_df]

ImportHistoricalOdds(season, page) ==
    LET r == OddsRun(odds, season, page)
    IN /\ odds' = r.table
       /\ call' = [op |-> "import_historical_odds",
                   arg |-> [season |-> season, page |-> page],
                   outcome |-> r.outcome, exc |-> r.exc, ret |-> r.ret]
       /\ UNCHANGED <<tournaments, stats>>

---------------------------------------------------------------------------
(* Temporal feature engine *)

\* Length in days of the window of get_cut_and_fedex_history and
\* get_recent_avg_finish (window_months) and of get_course_history
\* (lookback_years), at the scale of the model's calendar.
WindowDays == 2

LookbackDays == 4

\* Faulty variant of InWindow: BETWEEN :start_date AND :end_date.
InWindowInclusive(r, end_date, window) ==
    /\ end_date - window <= r.ENDING_DATE
    /\ r.ENDING_DATE <= end_date

\* WHERE ENDING_DATE BETWEEN :start_date AND DATE(:end_date, '-1 day')
InWindow(r, end_date, window) ==
    /\ end_date - window <= r.ENDING_DATE
    /\ r.ENDING_DATE <= end_date - 1

\* SUM / the numerator of AVG over a group of rows.
RECURSIVE SumPoints(_)
SumPoints(S) ==
    IF S = {} THEN 0
    ELSE LET x == CHOOSE y \in S : TRUE IN x.FEDEX_CUP_POINTS + SumPoints(S \ {x})

RECURSIVE SumFinalPos(_)
SumFinalPos(S) ==
    IF S = {} THEN 0
    ELSE LET x == CHOOSE y \in S : TRUE IN x.FINAL_POS + SumFinalPos(S \ {x})

\* n / d rounded to an integer, a tie going to the even one (Series.round).
RoundHalfEven(n, d) ==
    LET q == n \div d
        r == n % d
    IN IF 2 * r < d THEN q
       ELSE IF 2 * r > d THEN q + 1
       ELSE IF q % 2 = 0 THEN q ELSE q + 1

\* n / d rounded to an integer, a tie going up (SQLite's ROUND).
RoundHalfUp(n, d) == (2 * n + d) \div (2 * d)

\* np.log1p(n) in millionths, for n from 1 to 30.
Log1pMicro(n) ==
    <<693147, 1098612, 1386294, 1609438, 1791759, 1945910, 2079442, 2197225,
      2302585, 2397895, 2484907, 2564949, 2639057, 2708050, 2772589, 2833213,
      2890372, 2944439, 2995732, 3044522, 3091042, 3135494, 3178054, 3218876,
      3258097, 3295837, 3332205, 3367296, 3401197, 3433987>>[n]

\* Faulty variant of LogAdjusted: the mean is not divided by the logarithm.
LogUndamped(mean_tenths, played) == mean_tenths * 10

\* (mean / np.log1p(played)).round(2) in hundredths, mean given in tenths:
\* mean_tenths * 10 * 1000000 divided by Log1pMicro(played), by long division
\* in three steps so that no intermediate value leaves 32 bits.
LogAdjusted(mean_tenths, played) ==
    LET l  == Log1pMicro(played)
        a  == mean_tenths * 10 * 1000
        r1 == a % l
        r2 == (r1 * 100) % l
        q  == (a \div l) * 1000 + ((r1 * 100) \div l) * 10 + (r2 * 10) \div l
        r  == (r2 * 10) % l
    IN IF 2 * r < l THEN q
       ELSE IF 2 * r > l THEN q + 1
       ELSE IF q % 2 = 0 THEN q ELSE q + 1

\* df["adj_form"] = (df["RECENT_FORM"] / np.log1p(df["TOTAL_EVENTS_PLAYED"])).round(2)
\* on the rows of a frame; adj_ch is computed in the same way.
AdjColumn(df) ==
    [i \in DOMAIN df |-> LogAdjusted(df[i].RECENT_FORM, df[i].TOTAL_EVENTS_PLAYED)]

AdjForm ==
    /\ call.op = "frame"
    /\ call' = [op |-> "adj_form", arg |-> call.arg, outcome |-> "column",
                exc |-> "", ret |-> AdjColumn(call.arg)]
    /\ UNCHANGED db

MadeCut(r) == r.POS \notin {<<"C", "U", "T">>, <<"W", "/", "D">>}

\* The rows of one player sorted by ENDING_DATE, the latest first.
RECURSIVE LatestFirst(_)
LatestFirst(S) ==
    IF S = {} THEN << >>
    ELSE LET x == CHOOSE y \in S : \A z \in S : z.ENDING_DATE <= y.ENDING_DATE
         IN <<x>> \o LatestFirst(S \ {x})

\* Faulty variant of count_consecutive_cuts: the loop does not stop at the
\* first miss.
count_all_cuts(latest_first) == Len(SelectSeq(latest_first, MadeCut))

\* count_consecutive_cuts on the reversed list of MADE_CUT.
RECURSIVE count_consecutive_cuts(_)
count_consecutive_cuts(latest_first) ==
    IF latest_first = << >> \/ ~MadeCut(Head(latest_first)) THEN 0
    ELSE 1 + count_consecutive_cuts(Tail(latest_first))

\* The frame of one event; {} is the empty pd.DataFrame(), which has no columns.
CutFrame(table, row) ==
    LET df == {r \in table : InWindow(r, row.ENDING_DATE, WindowDays)}
        of(p) == {r \in df : r.PLAYER = p}
    IN {[PLAYER              |-> p,
         TOTAL_EVENTS_PLAYED |-> Cardinality(of(p)),
         CUTS_MADE           |-> Cardinality({r \in of(p) : MadeCut(r)}),
         FEDEX_CUP_POINTS    |-> SumPoints(of(p)),
         CUT_PERCENTAGE      |->
             RoundHalfEven(Cardinality({r \in of(p) : MadeCut(r)}) * 1000,
                           Cardinality(of(p))),
         form_density        |->
             RoundHalfEven(SumPoints(of(p)) * 100,
                           Cardinality(of(p))),
         CONSECUTIVE_CUTS    |-> count_consecutive_cuts(LatestFirst(of(p))),
         ENDING_DATE         |-> row.ENDING_DATE,
         TOURNAMENT          |-> row.TOURNAMENT] : p \in {r.PLAYER : r \in df}}

FormFrame(table, row) ==
    LET df == {r \in table : InWindow(r, row.ENDING_DATE, WindowDays)}
        of(p) == {r \in df : r.PLAYER = p}
        mean(p) == RoundHalfUp(SumFinalPos(of(p)) * 10,
                               Cardinality(of(p)))
    IN {[PLAYER              |-> p,
         TOTAL_EVENTS_PLAYED |-> Cardinality(of(p)),
         RECENT_FORM         |-> mean(p),
         adj_form            |-> LogAdjusted(mean(p), Cardinality(of(p))),
         ENDING_DATE         |-> row.ENDING_DATE,
         TOURNAMENT          |-> row.TOURNAMENT] : p \in {r.PLAYER : r \in df}}

\* Faulty variant of CourseFrame: WHERE COURSE = :course is left out.
CourseFrameAnyCourse(table, row) ==
    LET df == {r \in table : InWindow(r, row.ENDING_DATE, LookbackDays)}
        of(p) == {r \in df : r.PLAYER = p}
        mean(p) == RoundHalfUp(SumFinalPos(of(p)) * 10,
                               Cardinality(of(p)))
    IN {[PLAYER              |-> p,
         TOTAL_EVENTS_PLAYED |-> Cardinality(of(p)),
         COURSE_HISTORY      |-> mean(p),
         adj_ch              |-> LogAdjusted(mean(p), Cardinality(of(p))),
         ENDING_DATE         |-> row.ENDING_DATE,
         COURSE              |-> row.COURSE,
         TOURNAMENT          |-> row.TOURNAMENT] : p \in {r.PLAYER : r \in df}}

CourseFrame(table, row) ==
    LET df == {r \in table : /\ r.COURSE = row.COURSE
                             /\ InWindow(r, row.ENDING_DATE, LookbackDays)}
        of(p) == {r \in df : r.PLAYER = p}
        mean(p) == RoundHalfUp(SumFinalPos(of(p)) * 10,
                               Cardinality(of(p)))
    IN {[PLAYER              |-> p,
         TOTAL_EVENTS_PLAYED |-> Cardinality(of(p)),
         COURSE_HISTORY      |-> mean(p),
         adj_ch              |-> LogAdjusted(mean(p), Cardinality(of(p))),
         ENDING_DATE         |-> row.ENDING_DATE,
         COURSE              |-> row.COURSE,
         TOURNAMENT          |-> row.TOURNAMENT] : p \in {r.PLAYER : r \in df}}

\* output[str(end_date)] = ... for each row of history_df in turn: a later
\* row with the same end date replaces the entry of an earlier one.
\* The keys of the dict and, for a key, the row whose frame the dict holds.
DateKeys(history_df) == {history_df[i].ENDING_DATE : i \in DOMAIN history_df}

LastRowAt(history_df, d) ==
    history_df[CHOOSE i \in DOMAIN history_df :
                  /\ history_df[i].ENDING_DATE = d
                  /\ \A j \in DOMAIN history_df :
                        j > i => history_df[j].ENDING_DATE # d]

get_cut_and_fedex_history(table, history_df) ==
    [d \in DateKeys(history_df) |-> CutFrame(table, LastRowAt(history_df, d))]

get_recent_avg_finish(table, history_df) ==
    [d \in DateKeys(history_df) |-> FormFrame(table, LastRowAt(history_df, d))]

get_course_history(table, history_df) ==
    [d \in DateKeys(history_df) |-> CourseFrame(table, LastRowAt(history_df, d))]

GetCutAndFedexHistory(history_df) ==
    /\ call' = [op |-> "get_cut_and_fedex_history", arg |-> history_df,
                outcome |-> "dict", exc |-> "",
                ret |-> get_cut_and_fedex_history(tournaments, history_df)]
    /\ UNCHANGED db

GetRecentAvgFinish(history_df) ==
    /\ call' = [op |-> "get_recent_avg_finish", arg |-> history_df,
                outcome |-> "dict", exc |-> "",
                ret |-> get_recent_avg_finish(tournaments, history_df)]
    /\ UNCHANGED db

GetCourseHistory(history_df) ==
    /\ call' = [op |-> "get_course_history", arg |-> history_df,
                outcome |-> "dict", exc |-> "",
                ret |-> get_course_history(tournaments, history_df)]
    /\ UNCHANGED db

---------------------------------------------------------------------------
(* Training row builder: build_training_rows *)

RECURSIVE Flatten(_)
Flatten(ss) == IF ss = << >> THEN << >> ELSE Head(ss) \o Flatten(Tail(ss))

\* SELECT * FROM tournaments WHERE ENDING_DATE = :end_date AND TOURNAMENT = :tourn_name
BaseRows(table, row) ==
    SetToSeq({r \in table : /\ r.ENDING_DATE = row.ENDING_DATE
                            /\ r.TOURNAMENT = row.TOURNAMENT})

\* cuts[date_key]["PLAYER"] on the empty pd.DataFrame() raises KeyError.
EventRaises(table, row, dicts) ==
    /\ BaseRows(table, row) # << >>
    /\ \E k \in DOMAIN dicts :
          /\ row.ENDING_DATE \in DOMAIN dicts[k]
          /\ dicts[k][row.ENDING_DATE] = {}

\* The rolling features of one player in one dict, when the dict has an
\* entry for the event: Null when the player is not in the frame.
Rolling(dict, row, player) ==
    IF row.ENDING_DATE \notin DOMAIN dict THEN Null
    ELSE LET m == {f \in dict[row.ENDING_DATE] : f.PLAYER = player}
         IN IF m = {} THEN Null ELSE Some(CHOOSE f \in m : TRUE)

\* temp of one event: base results, then stats, odds and the three rolling
\* frames left-joined in this order.
EventFrame(table, stats_df, odds_df, row, dicts) ==
    LET \* left.merge(right, how="left"): every left row once per matching
        \* right row, or once with nothing joined when no right row matches.
        LeftJoin(left, right, on(_, _), joined(_, _)) ==
            Flatten([i \in 1..Len(left) |->
                LET m == SelectSeq(right, LAMBDA r : on(left[i], r))
                IN IF m = << >> THEN <<joined(left[i], Null)>>
                   ELSE [j \in 1..Len(m) |-> joined(left[i], Some(m[j]))]])
        base_df   == BaseRows(table, row)
        stats_sub == SetToSeq({x \in stats_df : x.SEASON = row.SEASON})
        odds_sub  == SetToSeq({x \in odds_df : /\ x.ENDING_DATE = Some(row.ENDING_DATE)
                                               /\ x.TOURNAMENT = row.TOURNAMENT})
        with_stats ==
            LeftJoin(base_df, stats_sub,
                     LAMBDA l, r : l.SEASON = r.SEASON /\ l.PLAYER = r.PLAYER,
                     LAMBDA l, m : [base |-> l,
                                    STATS |-> IF m = Null THEN Null
                                              ELSE Some(Get(m).cells)])
        with_odds ==
            LeftJoin(with_stats, odds_sub,
                     LAMBDA l, r : l.base.PLAYER = r.PLAYER,
                     LAMBDA l, m : [base |-> l.base, STATS |-> l.STATS,
                                    VEGAS_ODDS |-> IF m = Null THEN Null
                                                   ELSE Get(m).VEGAS_ODDS])
    IN [i \in 1..Len(with_odds) |->
          LET t == with_odds[i]
              b == t.base
              c == Rolling(dicts.cuts, row, b.PLAYER)
              f == Rolling(dicts.recent_form, row, b.PLAYER)
              h == Rolling(dicts.course_hist, row, b.PLAYER)
          IN [SEASON      |-> b.SEASON,
              ENDING_DATE |-> b.ENDING_DATE,
              TOURNAMENT  |-> b.TOURNAMENT,
              COURSE      |-> b.COURSE,
              PLAYER      |-> b.PLAYER,
              POS         |-> b.POS,
              FINAL_POS   |-> b.FINAL_POS,
              STATS       |-> t.STATS,
              VEGAS_ODDS  |-> t.VEGAS_ODDS,
              \* the event's own points: FEDEX_CUP_POINTS, or FEDEX_CUP_POINTS_x
              \* once the cuts frame is merged
              cuts_merged |-> row.ENDING_DATE \in DOMAIN dicts.cuts,
              FEDEX_CUP_POINTS_x |-> b.FEDEX_CUP_POINTS,
              CUTS        |-> IF c = Null THEN Null
                              ELSE Some([CUT_PERCENTAGE     |-> Get(c).CUT_PERCENTAGE,
                                         FEDEX_CUP_POINTS_y |-> Get(c).FEDEX_CUP_POINTS,
                                         form_density       |-> Get(c).form_density,
                                         CONSECUTIVE_CUTS   |-> Get(c).CONSECUTIVE_CUTS]),
              FORM        |-> IF f = Null THEN Null
                              ELSE Some([RECENT_FORM |-> Get(f).RECENT_FORM,
                                         adj_form    |-> Get(f).adj_form]),
              COURSE_HIST |-> IF h = Null THEN Null
                              ELSE Some([COURSE_HISTORY |-> Get(h).COURSE_HISTORY,
                                         adj_ch         |-> Get(h).adj_ch])]]

\* Faulty variant of Top20: FINAL_POS < 20.
Top20Strict(final_pos) == IF final_pos < 20 THEN 1 ELSE 0

\* (training_df["FINAL_POS"] <= 20).astype(int)
Top20(final_pos) == IF final_pos <= 20 THEN 1 ELSE 0

\* pd.concat, the dropped columns, the rename of FEDEX_CUP_POINTS_y and the
\* TOP_20 label: the rows of the returned matrix.  event_points is the
\* un-suffixed FEDEX_CUP_POINTS of an event whose cuts frame was not merged,
\* rolling_points is FEDEX_CUP_POINTS_y, renamed FEDEX_CUP_POINTS, of an event
\* whose cuts frame was merged.
TrainingMatrix(all_rows) ==
    [i \in 1..Len(all_rows) |->
       LET t == all_rows[i]
       IN [SEASON      |-> t.SEASON,
           ENDING_DATE |-> t.ENDING_DATE,
           TOURNAMENT  |-> t.TOURNAMENT,
           COURSE      |-> t.COURSE,
           PLAYER      |-> t.PLAYER,
           POS         |-> t.POS,
           FINAL_POS   |-> Some(t.FINAL_POS),
           STATS       |-> t.STATS,
           VEGAS_ODDS  |-> t.VEGAS_ODDS,
           cuts_merged    |-> t.cuts_merged,
           event_points   |-> IF t.cuts_merged THEN Null
                              ELSE Some(t.FEDEX_CUP_POINTS_x),
           rolling_points |-> IF t.CUTS = Null THEN Null
                              ELSE Some(Get(t.CUTS).FEDEX_CUP_POINTS_y),
           CUTS        |-> t.CUTS,
           FORM        |-> t.FORM,
           COURSE_HIST |-> t.COURSE_HIST,
           TOP_20      |-> Top20(t.FINAL_POS)]]

\* The columns of the returned matrix that are named FEDEX_CUP_POINTS: the
\* un-suffixed one when some event's cuts frame was not merged, the renamed
\* one when some event's was.
PointsColumns(training_df) ==
    (IF \E i \in DOMAIN training_df : ~training_df[i].cuts_merged
     THEN <<"FEDEX_CUP_POINTS">> ELSE << >>)
    \o (IF \E i \in DOMAIN training_df : training_df[i].cuts_merged
        THEN <<"FEDEX_CUP_POINTS">> ELSE << >>)

\* The whole call: dicts is [cuts, recent_form, course_hist].
BuildRun(table, stats_df, odds_df, history_df, dicts) ==
    IF \E i \in DOMAIN history_df : EventRaises(table, history_df[i], dicts)
    THEN [outcome |-> "raised", exc |-> "KeyError", ret |-> << >>]
    ELSE [outcome |-> "df", exc |-> "",
          ret |-> TrainingMatrix(Flatten(
                    [i \in 1..Len(history_df) |->
                       EventFrame(table, stats_df, odds_df, history_df[i], dicts)]))]

\* The caller passes the dicts that the three feature functions return for
\* an event list feat_df, which need not be history_df.
BuildTrainingRows(history_df, feat_df) ==
    LET dicts == [cuts        |-> get_cut_and_fedex_history(tournaments, feat_df),
                  recent_form |-> get_recent_avg_finish(tournaments, feat_df),
                  course_hist |-> get_course_history(tournaments, feat_df)]
        r == BuildRun(tournaments, stats, odds, history_df, dicts)
    IN /\ call' = [op |-> "build_training_rows",
                   arg |-> [history_df |-> history_df, dicts |-> dicts],
                   outcome |-> r.outcome, exc |-> r.exc, ret |-> r.ret]
       /\ UNCHANGED db

---------------------------------------------------------------------------
(* Inputs *)

(* Bounds of the model. *)

\* Longest list of players in a results response.
MaxPlayers == 2

\* Longest position text built from PosAlphabet.
MaxPosLen == 3

\* Longest odds text built from OddsAlphabet.
MaxOddsLen == 3

\* Most rows in one fetched category table.
MaxStatRows == 1

\* Most player rows in one block of an odds page.
MaxOddsRows == 2

\* Most events in one history_df.
MaxHistory == 2

\* Most events of one player in a window.
MaxPlayed == 17

\* Largest mean position, in tenths, of the frames of the damping
\* specification.
MaxMeanTenths == 300

Players == {"P1", "P2"}

\* The events: Event2 and Event3 end on the same day at different courses,
\* Event4 is out of the six-month window of the others and within the
\* course lookback of all of them.
Event1 == [season |-> 1, name |-> "T1", course |-> "C1", date |-> 1]
Event2 == [season |-> 1, name |-> "T2", course |-> "C1", date |-> 2]
Event3 == [season |-> 1, name |-> "T3", course |-> "C2", date |-> 2]
Event4 == [season |-> 1, name |-> "T1", course |-> "C1", date |-> 5]

\* Event5 has Event1, Event2 and Event3 in its six-month window.
Event5 == [season |-> 1, name |-> "T4", course |-> "C1", date |-> 3]

\* Event6 ends with Event1, on the course of Event3.
Event6 == [season |-> 1, name |-> "T5", course |-> "C2", date |-> 1]

T5  == <<"T", "5">>
CUT == <<"C", "U", "T">>
WD  == <<"W", "/", "D">>

Result(player, pos) == [position |-> Some(pos), displayName |-> player, points |-> 1]

FailedResponses ==
    {[kind |-> "request_failed"], [kind |-> "bad_json"], [kind |-> "no_data_path"]}

OkResponses(records) ==
    {[kind |-> "ok", players |-> ps] : ps \in SeqsUpTo(records, MaxPlayers)}

\* Results: every response for Event1, the responses about P1 for Event2.
ResultInputs ==
    ({Event1} \X (FailedResponses
                  \cup OkResponses({Result(p, t) : p \in Players, t \in {T5, CUT}})))
    \cup ({Event2} \X OkResponses({Result("P1", t) : t \in {T5, CUT}}))

PosAlphabet == {"T", "5"}

PosTexts ==
    SeqsUpTo(PosAlphabet, MaxPosLen) \cup {<<"1">>, <<"T", "1", "2">>, CUT, WD}

PosInputs ==
    {[kind |-> "ok",
      players |-> <<[position |-> p, displayName |-> "P1", points |-> 1]>>] :
        p \in {Null} \cup {Some(t) : t \in PosTexts}}

\* Stats: a category's request fails or returns a table.
StatRow(player) == [playerName |-> Some(player), rank |-> Some(1), value |-> Some(1)]

Fetches ==
    {[kind |-> "failed"]}
    \cup {[kind |-> "ok", rows |-> rs] :
             rs \in SeqsUpTo({StatRow(p) : p \in Players}, MaxStatRows)}

\* Every combination for season 1, the same table in both categories for
\* season 2.
StatInputs ==
    ({1} \X [Range(Cats) -> Fetches])
    \cup ({2} \X {[c \in Range(Cats) |-> f] : f \in Fetches \ {[kind |-> "failed"]}})

\* Odds pages.
NameCell(n) == [text |-> n, isdate |-> FALSE, date |-> Null, cancelled |-> FALSE]

DateCell(d) == [text |-> "dates", isdate |-> TRUE, date |-> d, cancelled |-> FALSE]

CancelledCell == [text |-> "cancelled", isdate |-> FALSE, date |-> Null, cancelled |-> TRUE]

\* A date line that carries the notice of cancellation itself.
CancelledDateCell(d) ==
    [text |-> "dates cancelled", isdate |-> TRUE, date |-> d, cancelled |-> TRUE]

Line(cell) == [PLAYER |-> cell, ODDS |-> Null]

Quote(player, odds_text) == [PLAYER |-> NameCell(player), ODDS |-> Some(odds_text)]

\* A block: name line, venue line, date line, a fourth line, the quotes.
Block(name, date, fourth, quotes) ==
    <<Line(NameCell(name)), Line(NameCell("venue")), Line(DateCell(date)), Line(fourth)>>
    \o quotes

\* The two lines that end the table.
Footer == <<Line(NameCell("notes")), Line(NameCell("notes"))>>

Page(rows) == [kind |-> "table", rows |-> rows]

NineToTwo == <<"9", "/", "2">>
FiveToOne == <<"5", "/", "1">>

OddsAlphabet == {"9", "/"}

\* A cell without text is read as NaN, so an odds text is never empty.
OddsTexts ==
    (SeqsUpTo(OddsAlphabet, MaxOddsLen) \ {<< >>})
    \cup {NineToTwo, <<"1", "0", "0", "/", "1">>,
          <<"1", ",", "0", "0", "0", "/", "1">>, <<"W", "D">>,
          <<"9", "/", "0">>, <<"0", "/", "0">>}

\* One block of one quote of P1 for Event1, over odds texts.
OddsTextInputs ==
    {Page(Block("T1", Some(1), NameCell("par"), <<Quote("P1", t)>>) \o Footer) :
        t \in OddsTexts}

\* One block for Event2 with up to MaxOddsRows quotes of P1.
OddsInputs ==
    {[kind |-> "no_table"]}
    \cup {Page(Block("T2", Some(2), NameCell("par"), qs) \o Footer) :
             qs \in SeqsUpTo({Quote("P1", t) : t \in {NineToTwo, FiveToOne}},
                             MaxOddsRows)}

\* The pages of the block scan specification: a block of T1 alone, before or
\* after a block of T2 that is regular, cancelled on the line after its date
\* line or cancelled on its date line; blocks of one or two quotes; the table
\* ending with the last quotes or with two more lines; and one page of three
\* blocks with the cancelled one in the middle.
ScanQuotes ==
    {<<Quote("P1", NineToTwo)>>, <<Quote("P1", NineToTwo), Quote("P2", FiveToOne)>>}

ScanBlocksT1 == {Block("T1", Some(1), NameCell("par"), qs) : qs \in ScanQuotes}

ScanBlocksT2 ==
    {Block("T2", Some(2), fourth, qs) :
        fourth \in {NameCell("par"), CancelledCell}, qs \in ScanQuotes}
    \cup {<<Line(NameCell("T2")), Line(NameCell("venue")),
             Line(CancelledDateCell(Some(2))), Line(NameCell("par"))>> \o qs :
                qs \in ScanQuotes}

ScanInputs ==
    {Page(body \o tail) :
        body \in ScanBlocksT1
                 \cup {a \o b : a \in ScanBlocksT1, b \in ScanBlocksT2}
                 \cup {b \o a : a \in ScanBlocksT1, b \in ScanBlocksT2},
        tail \in {<< >>, Footer}}
    \cup {Page(Block("T1", Some(1), NameCell("par"), <<Quote("P1", NineToTwo)>>)
               \o Block("T2", Some(2), CancelledCell, <<Quote("P1", NineToTwo)>>)
               \o Block("T3", Some(2), NameCell("par"), <<Quote("P2", FiveToOne)>>)
               \o Footer)}

\* The inputs of the re-run specification: a request failure, one player, two
\* players, one player listed twice; categories that agree, differ, fail or
\* come back empty; no table, one quote, two quotes, the same quote twice.
TwiceResultInputs ==
    {Event1} \X {[kind |-> "request_failed"],
                 [kind |-> "ok", players |-> <<Result("P1", T5)>>],
                 [kind |-> "ok", players |-> <<Result("P1", CUT), Result("P2", T5)>>],
                 [kind |-> "ok", players |-> <<Result("P1", T5), Result("P1", CUT)>>]}

Fetched(rows) == [kind |-> "ok", rows |-> rows]

TwiceStatInputs ==
    {1} \X {[c \in Range(Cats) |-> Fetched(<<StatRow("P1")>>)],
            [c \in Range(Cats) |->
                IF c = base_stat THEN Fetched(<<StatRow("P1")>>) ELSE [kind |-> "failed"]],
            [c \in Range(Cats) |->
                IF c = base_stat THEN [kind |-> "failed"] ELSE Fetched(<<StatRow("P2")>>)],
            [c \in Range(Cats) |->
                IF c = base_stat THEN Fetched(<<StatRow("P1")>>) ELSE Fetched(<< >>)]}

\* The payloads of the feature and builder specifications.
FeaturePayloads ==
    {[kind |-> "ok", players |-> <<Result("P1", T5)>>],
     [kind |-> "ok", players |-> <<Result("P1", CUT), Result("P2", T5)>>]}

FeatureEvents == {Event1, Event2, Event3, Event4}

Third == <<"3">>

\* The means, in tenths, from 1.0 on.
MeanTenths == 10..MaxMeanTenths

\* Frames of two players with the same mean and different numbers of events.
DampingFrames ==
    {<<[RECENT_FORM |-> m, TOTAL_EVENTS_PLAYED |-> n1],
       [RECENT_FORM |-> m, TOTAL_EVENTS_PLAYED |-> n2]>> :
        m \in MeanTenths,
        n1 \in 1..MaxPlayed, n2 \in 1..MaxPlayed}

\* The payloads of the same-date specification.
SameDatePayloads ==
    {[kind |-> "ok", players |-> <<Result("P1", T5)>>],
     [kind |-> "ok", players |-> <<Result("P1", CUT)>>]}

\* The payloads of the streak specification.
StreakPayloads ==
    {[kind |-> "ok", players |-> <<Result("P1", T5)>>],
     [kind |-> "ok", players |-> <<Result("P1", WD)>>],
     [kind |-> "ok", players |-> <<Result("P1", CUT), Result("P2", T5)>>]}

\* The payloads of the course history specification.
CoursePayloads ==
    {[kind |-> "ok", players |-> <<Result("P1", Third)>>],
     [kind |-> "ok", players |-> <<Result("P1", CUT)>>],
     [kind |-> "ok", players |-> <<Result("P1", T5), Result("P2", Third)>>]}

BuildEvents == {Event1, Event2}

Twenty    == <<"2", "0">>
TwentyOne == <<"T", "2", "1">>

\* The payloads of the label specification: one or two players of Event1 over
\* the positions around the threshold, a cut of P1 at Event2.
LabelInputs ==
    LET texts == {T5, Twenty, TwentyOne, CUT}
    IN ({Event1} \X ({[kind |-> "ok", players |-> <<Result("P1", t)>>] : t \in texts}
                     \cup {[kind |-> "ok",
                            players |-> <<Result("P1", t), Result("P2", u)>>] :
                               t \in texts, u \in texts}))
       \cup {<<Event2, [kind |-> "ok", players |-> <<Result("P1", CUT)>>]>>}

BuildStatInputs ==
    {in \in TwiceStatInputs : \A c \in Range(Cats) : in[2][c] # Fetched(<< >>)
                                                     /\ in[2][base_stat].kind = "ok"}

BuildOddsInputs ==
    {in \in OddsInputs : in.kind = "table" /\ in.rows[5].ODDS = Some(NineToTwo)}

\* Event lists: distinct events in date order.
Histories(events) ==
    {h \in SeqsUpTo(events, MaxHistory) :
        \A i, j \in DOMAIN h : i < j => h[i] # h[j] /\ h[i].date <= h[j].date}

HistoryRow(e) ==
    [SEASON |-> e.season, TOURNAMENT |-> e.name, COURSE |-> e.course,
     ENDING_DATE |-> e.date]

HistoryOf(h) == [i \in DOMAIN h |-> HistoryRow(h[i])]

---------------------------------------------------------------------------
(* Specifications *)

NoCall == [op |-> "none", arg |-> Null, outcome |-> "none", exc |-> "", ret |-> << >>]

Init ==
    /\ tournaments = {}
    /\ stats = {}
    /\ odds = {}
    /\ call = NoCall
    /\ rerun = "no"

\* The results ingestor alone.
NextResults ==
    \E in \in ResultInputs :
        /\ UpdateTournamentResults(in[1], in[1].season, in[2])
        /\ UNCHANGED rerun

SpecResults == Init /\ [][NextResults]_vars

\* The results ingestor on one player of one event, over position texts.
NextPos ==
    \E response \in PosInputs :
        /\ UpdateTournamentResults(Event1, 1, response)
        /\ UNCHANGED rerun

SpecPos == Init /\ [][NextPos]_vars

\* The stat ingestor alone.
NextStats ==
    \E in \in StatInputs :
        /\ UpdateSeasonStats(in[1], in[2])
        /\ UNCHANGED rerun

SpecStats == Init /\ [][NextStats]_vars

\* The odds ingestor on one quote, over odds texts.
NextOddsText ==
    \E page \in OddsTextInputs :
        /\ ImportHistoricalOdds(1, page)
        /\ UNCHANGED rerun

SpecOddsText == Init /\ [][NextOddsText]_vars

\* The odds ingestor on pages of several blocks.
NextOddsScan ==
    \E page \in ScanInputs :
        /\ ImportHistoricalOdds(1, page)
        /\ UNCHANGED rerun

SpecOddsScan == Init /\ [][NextOddsScan]_vars

\* Any ingestor, and its re-run with the identical source payload.
Again ==
    /\ rerun = "pending"
    /\ rerun' = "done"
    /\ \/ /\ call.op = "update_tournament_results"
          /\ UpdateTournamentResults(call.arg.config, call.arg.season, call.arg.response)
       \/ /\ call.op = "update_season_stats"
          /\ UpdateSeasonStats(call.arg.year, call.arg.fetched)
       \/ /\ call.op = "import_historical_odds"
          /\ ImportHistoricalOdds(call.arg.season, call.arg.page)

NextTwice ==
    \/ /\ rerun # "pending"
       /\ rerun' \in {"no", "pending"}
       /\ \/ \E in \in TwiceResultInputs :
                UpdateTournamentResults(in[1], in[1].season, in[2])
          \/ \E in \in TwiceStatInputs : UpdateSeasonStats(in[1], in[2])
          \/ \E page \in OddsInputs : ImportHistoricalOdds(1, page)
    \/ Again

SpecTwice == Init /\ [][NextTwice]_vars

\* Results of the events, and the three feature functions.
NextFeatures ==
    \/ \E e \in FeatureEvents, response \in FeaturePayloads :
          UpdateTournamentResults(e, e.season, response) /\ UNCHANGED rerun
    \/ \E h \in Histories(FeatureEvents) :
          GetCutAndFedexHistory(HistoryOf(h)) /\ UNCHANGED rerun
    \/ \E h \in Histories(FeatureEvents) :
          GetRecentAvgFinish(HistoryOf(h)) /\ UNCHANGED rerun
    \/ \E h \in Histories(FeatureEvents) :
          GetCourseHistory(HistoryOf(h)) /\ UNCHANGED rerun

SpecFeatures == Init /\ [][NextFeatures]_vars

\* Results of the events, and the course history of an event list.
NextCourse ==
    \/ \E e \in FeatureEvents, response \in CoursePayloads :
          UpdateTournamentResults(e, e.season, response) /\ UNCHANGED rerun
    \/ \E h \in Histories(FeatureEvents) :
          GetCourseHistory(HistoryOf(h)) /\ UNCHANGED rerun

SpecCourse == Init /\ [][NextCourse]_vars

\* Results of three events within one window, and the cut history of the
\* events that follow them.
NextStreak ==
    \/ \E e \in {Event1, Event2, Event3}, response \in StreakPayloads :
          UpdateTournamentResults(e, e.season, response) /\ UNCHANGED rerun
    \/ \E h \in Histories({Event2, Event5}) :
          GetCutAndFedexHistory(HistoryOf(h)) /\ UNCHANGED rerun

SpecStreak == Init /\ [][NextStreak]_vars

\* The adjusted column of a frame read from the query.
InitDamping ==
    /\ tournaments = {}
    /\ stats = {}
    /\ odds = {}
    /\ rerun = "no"
    /\ \E df \in {f \in DampingFrames :
                     f[1].TOTAL_EVENTS_PLAYED < f[2].TOTAL_EVENTS_PLAYED} :
          call = [op |-> "frame", arg |-> df, outcome |-> "none", exc |-> "",
                  ret |-> << >>]

NextDamping == AdjForm /\ UNCHANGED rerun

SpecDamping == InitDamping /\ [][NextDamping]_vars

\* The three ingestors and the builder; the builder gets the dicts of the
\* feature functions for its own event list, for one of its events or for
\* the empty list.
NextBuild ==
    \/ \E e \in BuildEvents, response \in FeaturePayloads :
          UpdateTournamentResults(e, e.season, response) /\ UNCHANGED rerun
    \/ \E in \in BuildStatInputs :
          UpdateSeasonStats(in[1], in[2]) /\ UNCHANGED rerun
    \/ \E page \in BuildOddsInputs :
          ImportHistoricalOdds(1, page) /\ UNCHANGED rerun
    \/ \E h \in Histories(BuildEvents) :
       \E feat \in {h, << >>} \cup {<<h[i]>> : i \in DOMAIN h} :
          BuildTrainingRows(HistoryOf(h), HistoryOf(feat)) /\ UNCHANGED rerun

SpecBuild == Init /\ [][NextBuild]_vars

\* Results around the threshold of the label, and the builder without
\* rolling features.
NextLabel ==
    \/ \E in \in LabelInputs :
          UpdateTournamentResults(in[1], in[1].season, in[2]) /\ UNCHANGED rerun
    \/ \E h \in Histories(BuildEvents) :
          BuildTrainingRows(HistoryOf(h), << >>) /\ UNCHANGED rerun

SpecLabel == Init /\ [][NextLabel]_vars

\* Results of two events of one end date on two courses and of two earlier
\* events on these courses, and the builder with the dicts of its event list.
NextSameDate ==
    \/ \E e \in {Event1, Event6, Event2, Event3}, response \in SameDatePayloads :
          UpdateTournamentResults(e, e.season, response) /\ UNCHANGED rerun
    \/ \E h \in Histories({Event2, Event3}) :
          BuildTrainingRows(HistoryOf(h), HistoryOf(h)) /\ UNCHANGED rerun

SpecSameDate == Init /\ [][NextSameDate]_vars

---------------------------------------------------------------------------
(* Properties *)

IsResultsCall(c) == c.op = "update_tournament_results"

\* C1: for each of the three ingestors, from any store, the run that follows
\* a run with the identical source payload inserts nothing: it leaves the
\* store of the first run, and ends as the first run ended (same result,
\* no new error).
C1_Idempotent ==
    [][rerun = "pending" /\ rerun' = "done" =>
          /\ db' = db
          /\ call'.outcome = call.outcome
          /\ call'.ret = call.ret]_vars

\* The odds ingestor has been re-run after a run that returned rows, on a
\* store that the other two ingestors have filled.
C1_Witness ==
    /\ rerun = "done"
    /\ call.op = "import_historical_odds"
    /\ call.outcome = "df"
    /\ call.ret # << >>
    /\ tournaments # {} /\ stats # {} /\ odds # {}

\* The rows of the table that the claim lets an event of end date D read:
\* end date in [D - window, D - 1].
Qualifying(row, window, same_course) ==
    {r \in tournaments :
        /\ row.ENDING_DATE - window <= r.ENDING_DATE
        /\ r.ENDING_DATE < row.ENDING_DATE
        /\ same_course => r.COURSE = row.COURSE}

\* A frame holds one row per player of the qualifying rows, counting them.
CountsOnly(frame, rows) ==
    /\ {f.PLAYER : f \in frame} = {r.PLAYER : r \in rows}
    /\ \A f \in frame :
          f.TOTAL_EVENTS_PLAYED = Cardinality({r \in rows : r.PLAYER = f.PLAYER})

\* C2: for an event of end date D, what each of the three feature functions
\* stores under D is aggregated from the tournaments rows with end date in
\* [D - window, D - 1] only; a row at D or later never contributes.
C2_WindowExclusive ==
    call.op \in {"get_cut_and_fedex_history", "get_recent_avg_finish",
                 "get_course_history"} =>
        \A d \in DOMAIN call.ret :
            \E i \in DOMAIN call.arg :
                /\ call.arg[i].ENDING_DATE = d
                /\ CountsOnly(call.ret[d],
                              Qualifying(call.arg[i],
                                         IF call.op = "get_course_history"
                                         THEN LookbackDays ELSE WindowDays,
                                         call.op = "get_course_history"))

\* The cut history of Event1 and Event2 has been computed on a table that
\* holds rows at the end date of Event1, one day later and after that.
C2_Witness ==
    /\ call.op = "get_cut_and_fedex_history"
    /\ call.arg = HistoryOf(<<Event1, Event2>>)
    /\ call.ret[1] = {}
    /\ call.ret[2] # {}
    /\ \A d \in {1, 2, 5} : \E r \in tournaments : r.ENDING_DATE = d

\* Two entries of a payload name the same player.
SamePlayerTwice(players) ==
    \E i, j \in DOMAIN players :
        i # j /\ players[i].displayName = players[j].displayName

\* C3: after any sequence of update_tournament_results calls, whatever the
\* payloads (one listing a player twice included), no two rows of tournaments
\* share (ENDING_DATE, TOURNAMENT, PLAYER).
C3_UniqueKey ==
    \A r1, r2 \in tournaments : TournamentKey(r1) = TournamentKey(r2) => r1 = r2

\* A call whose payload lists one player twice has run on a table with rows.
C3_Witness ==
    /\ IsResultsCall(call)
    /\ call.arg.response.kind = "ok"
    /\ SamePlayerTwice(call.arg.response.players)
    /\ tournaments # {}

\* The request failed, or the response lists zero players.
NothingToIngest(c) ==
    /\ IsResultsCall(c)
    /\ \/ c.arg.response.kind = "request_failed"
       \/ c.arg.response.kind = "ok" /\ c.arg.response.players = << >>

\* C7: when the request fails or the response lists zero players,
\* update_tournament_results returns None without raising and leaves the
\* tournaments table as it was.
C7_FailsSilently ==
    [][NothingToIngest(call') => call'.outcome = "none" /\ tournaments' = tournaments]_vars

\* A response with zero players has been handled on a table with rows.
C7_Witness ==
    /\ NothingToIngest(call)
    /\ call.arg.response.kind = "ok"
    /\ call.outcome = "none"
    /\ tournaments # {}

\* The body of the response is not JSON, or lacks data.tournamentPastResults.players.
Unparseable(c) ==
    /\ IsResultsCall(c)
    /\ c.arg.response.kind \in {"bad_json", "no_data_path"}

\* C8 (as the code has it): when the body of a successful response is
\* malformed JSON or lacks the expected data path, update_tournament_results
\* logs the error and re-raises it to the caller; the store is unchanged.
C8_ParseErrorRaised ==
    [][Unparseable(call') => call'.outcome = "raised" /\ db' = db]_vars

\* An unparseable body has been handled on a table with rows.
C8_Witness ==
    /\ Unparseable(call)
    /\ call.outcome = "raised"
    /\ tournaments # {}

\* C8 as stated: on an unparseable body the call returns an empty or null
\* result, never raises, and the store is unchanged.
C8_AsStated ==
    [][Unparseable(call') => call'.outcome # "raised" /\ db' = db]_vars

\* The integer the claim names for a position text: the first run of digits
\* read in base ten, 90 when the text has no digit.
ExpectedPos(pos) ==
    IF \A k \in DOMAIN pos : pos[k] \notin Digits THEN 90
    ELSE LET i == CHOOSE k \in DOMAIN pos :
                     pos[k] \in Digits /\ \A m \in 1..(k - 1) : pos[m] \notin Digits
             j == CHOOSE k \in i..Len(pos) :
                     /\ \A m \in i..k : pos[m] \in Digits
                     /\ k < Len(pos) => pos[k + 1] \notin Digits
         IN ToInt(SubSeq(pos, i, j))

\* The entries of a payload that carry a position.
Positioned(players) == SelectSeq(players, LAMBDA p : p.position # Null)

\* C6: FINAL_POS of every produced row is the integer extracted from the
\* position text, 90 when there is none ("T5" -> 5, "1" -> 1, "CUT" -> 90,
\* "W/D" -> 90), and the players without a position produce no row.
C6_FinalPos ==
    /\ ExpectedPos(T5) = 5 /\ ExpectedPos(<<"1">>) = 1
    /\ ExpectedPos(CUT) = 90 /\ ExpectedPos(WD) = 90
    /\ \A r \in tournaments : r.FINAL_POS = ExpectedPos(r.POS)
    /\ IsResultsCall(call) /\ call.outcome = "df" =>
          LET kept == Positioned(call.arg.response.players)
          IN /\ Len(call.ret) = Len(kept)
             /\ \A i \in DOMAIN kept :
                   /\ call.ret[i].PLAYER = kept[i].displayName
                   /\ call.ret[i].POS = Get(kept[i].position)
                   /\ call.ret[i].FINAL_POS = ExpectedPos(Get(kept[i].position))

\* A text with two runs of digits has been ingested, after a call whose only
\* player had no position.
C6_Witness ==
    /\ IsResultsCall(call)
    /\ call.outcome = "df"
    /\ call.arg.response.players[1].position = Null
    /\ call.ret = << >>
    /\ \E r \in tournaments : r.POS = <<"5", "T", "5">> /\ r.FINAL_POS = 5

\* The persisted results of an event of history_df.
PersistedResults(row) ==
    {r \in tournaments : /\ r.ENDING_DATE = row.ENDING_DATE
                         /\ r.TOURNAMENT = row.TOURNAMENT}

\* The rows of the returned matrix that belong to an event.
MatrixRows(row) ==
    {i \in DOMAIN call.ret : /\ call.ret[i].ENDING_DATE = row.ENDING_DATE
                             /\ call.ret[i].TOURNAMENT = row.TOURNAMENT}

\* Some event with persisted results has an empty entry in one of the dicts.
EmptyEntry(c) ==
    \E i \in DOMAIN c.arg.history_df :
        /\ PersistedResults(c.arg.history_df[i]) # {}
        /\ \E k \in DOMAIN c.arg.dicts :
              /\ c.arg.history_df[i].ENDING_DATE \in DOMAIN c.arg.dicts[k]
              /\ c.arg.dicts[k][c.arg.history_df[i].ENDING_DATE] = {}

\* C4 as stated: build_training_rows does not throw when the entry of cuts,
\* recent_form or course_hist of an event with persisted results is the
\* empty result of the feature functions; the rows of the event come with
\* null rolling features and every row has a FINAL_POS.
C4_AsStated ==
    call.op = "build_training_rows" /\ EmptyEntry(call) =>
        /\ call.outcome = "df"
        /\ \A i \in DOMAIN call.ret : call.ret[i].FINAL_POS # Null
        /\ \A i \in DOMAIN call.arg.history_df :
              PersistedResults(call.arg.history_df[i]) # {} =>
                  MatrixRows(call.arg.history_df[i]) # {}

\* The builder has raised KeyError on an event with persisted results whose
\* entries in the dicts are empty.
C4_Witness ==
    /\ call.op = "build_training_rows"
    /\ EmptyEntry(call)
    /\ call.outcome = "raised"
    /\ call.exc = "KeyError"

\* C5 as stated: build_training_rows returns exactly one row per (event,
\* player): for every event of history_df as many rows as tournaments holds
\* for it, whatever the stats, odds (several quotes of a player included)
\* and rolling features joined, and none for an event without results.
C5_AsStated ==
    call.op = "build_training_rows" /\ call.outcome = "df" =>
        \A i \in DOMAIN call.arg.history_df :
            Cardinality(MatrixRows(call.arg.history_df[i]))
                = Cardinality(PersistedResults(call.arg.history_df[i]))

\* The builder has returned a matrix for Event2 while odds holds two quotes
\* of P1 for Event2 and tournaments a result of P1.
C5_Witness ==
    /\ call.op = "build_training_rows"
    /\ call.outcome = "df"
    /\ call.arg.history_df = HistoryOf(<<Event2>>)
    /\ \E r \in PersistedResults(HistoryRow(Event2)) : r.PLAYER = "P1"
    /\ \E x, y \in odds : x.PLAYER = "P1" /\ y.PLAYER = "P1" /\ x.ODDS # y.ODDS

\* The text, commas removed, holds digits "/" digits.
HasFraction(odds_text) ==
    LET t == RemoveCommas(odds_text)
    IN \E k \in 2..(Len(t) - 1) :
          t[k - 1] \in Digits /\ t[k] = "/" /\ t[k + 1] \in Digits

\* C9 as stated: VEGAS_ODDS is numerator / denominator of the odds text with
\* the thousands separators removed ("9/2" -> 4.5, "100/1" -> 100.0), and a
\* collected row whose text holds no numerator/denominator pattern is in
\* neither the returned nor the persisted rows; the call does not raise.
C9_AsStated ==
    /\ call.op = "import_historical_odds" => call.outcome = "df"
    /\ \A r \in odds \cup Range(call.ret) :
          /\ HasFraction(r.ODDS)
          /\ r.ODDS = NineToTwo => r.VEGAS_ODDS = Some([num |-> 9, den |-> 2])
          /\ r.ODDS = <<"1", "0", "0", "/", "1">> =>
                r.VEGAS_ODDS = Some([num |-> 100, den |-> 1])
          /\ r.ODDS = <<"1", ",", "0", "0", "0", "/", "1">> =>
                r.VEGAS_ODDS = Some([num |-> 1000, den |-> 1])

\* A quote "WD" has been returned and persisted with a null VEGAS_ODDS.
C9_Witness ==
    /\ call.op = "import_historical_odds"
    /\ call.outcome = "df"
    /\ \E i \in DOMAIN call.ret :
          call.ret[i].ODDS = <<"W", "D">> /\ call.ret[i].VEGAS_ODDS = Null
    /\ \E r \in odds : r.ODDS = <<"W", "D">> /\ r.VEGAS_ODDS = Null

\* The players named in the fetched table of a category.
FetchedPlayers(fetched, c) ==
    IF fetched[c].kind = "failed" THEN {}
    ELSE {Get(fetched[c].rows[i].playerName) :
             i \in {j \in DOMAIN fetched[c].rows : fetched[c].rows[j].playerName # Null}}

\* The cell that the fetched table of a category gives a player.
FetchedCells(fetched, c, player) ==
    IF player \notin FetchedPlayers(fetched, c) THEN {NoCell}
    ELSE {[rank |-> fetched[c].rows[i].rank, value |-> fetched[c].rows[i].value] :
             i \in {j \in DOMAIN fetched[c].rows :
                       fetched[c].rows[j].playerName = Some(player)}}

\* C10: after update_season_stats(Y) completes, the stats rows of season Y are
\* exactly the rows merged from the category tables fetched in that call
\* (every earlier row of season Y is gone), and every row of another season
\* is as it was.
C10_SeasonOverwritten ==
    [][call'.op = "update_season_stats" /\ call'.outcome = "df" =>
          LET Y       == call'.arg.year
              fetched == call'.arg.fetched
              now     == {r \in stats' : r.SEASON = Y}
          IN /\ now = Range(call'.ret)
             /\ {r.PLAYER : r \in now}
                   = UNION {FetchedPlayers(fetched, c) : c \in Range(Cats)}
             /\ \A r \in now : \A c \in Range(Cats) :
                   r.cells[c] \in FetchedCells(fetched, c, r.PLAYER)
             /\ {r \in stats' : r.SEASON # Y} = {r \in stats : r.SEASON # Y}]_vars

\* Season 1 has been fetched again with P2 only, on a table that holds rows
\* of season 2, P1 among them.
C10_Witness ==
    /\ call.op = "update_season_stats"
    /\ call.outcome = "df"
    /\ call.arg.year = 1
    /\ {r.PLAYER : r \in {x \in stats : x.SEASON = 1}} = {"P2"}
    /\ \E r \in stats : r.SEASON = 2 /\ r.PLAYER = "P1"

\* The sum of the positions of a set of rows as the claim counts them: the
\* number in the position text, 90 for a text without one.
RECURSIVE SumExpectedPos(_)
SumExpectedPos(S) ==
    IF S = {} THEN 0
    ELSE LET x == CHOOSE y \in S : TRUE
         IN ExpectedPos(x.POS) + SumExpectedPos(S \ {x})

\* ln(1 + n) in thousandths, rounded down.
LnMilli(n) ==
    CASE n = 1 -> 693 [] n = 2 -> 1098 [] n = 3 -> 1386 [] n = 4 -> 1609
      [] n = 5 -> 1791 [] n = 6 -> 1945 [] OTHER -> 2079

\* mean_tenths is total / n to one decimal.
IsMean(mean_tenths, total, n) ==
    /\ 2 * (mean_tenths * n - 10 * total) <= n
    /\ 2 * (10 * total - mean_tenths * n) <= n

\* adj_hundredths is mean / ln(1 + n) to two decimals, for a mean given in
\* tenths: adj * ln(1 + n) is within half a hundredth of ln(1 + n) of mean.
IsLogAdjusted(adj_hundredths, mean_tenths, n) ==
    /\ 2 * (adj_hundredths * LnMilli(n) - mean_tenths * 10000) <= LnMilli(n) + 1
    /\ 2 * (mean_tenths * 10000 - adj_hundredths * (LnMilli(n) + 1)) <= LnMilli(n) + 1

\* Player p finished 3 and then "CUT" in the rows, and played nothing else.
ThirdThenCut(rows, p) ==
    \E a, b \in rows :
        /\ {r \in rows : r.PLAYER = p} = {a, b}
        /\ a.ENDING_DATE < b.ENDING_DATE
        /\ a.POS = Third /\ b.POS = CUT

\* C11: the frame that get_course_history computes for an event of end date D
\* has one row per player of the tournaments rows at the event's course dated
\* in [D - lookback, D - 1], with their number, the mean of their positions
\* (90 for a cut) to one decimal and that mean / ln(1 + number) to two
\* decimals; 3 then "CUT" gives 2 events, mean 46.5 and 42.33 = 46.5 / ln(3).
C11_CourseHistory ==
    call.op = "get_course_history" =>
        \A i \in DOMAIN call.arg :
            (\A j \in DOMAIN call.arg :
                j > i => call.arg[j].ENDING_DATE # call.arg[i].ENDING_DATE) =>
            LET rows  == Qualifying(call.arg[i], LookbackDays, TRUE)
                frame == call.ret[call.arg[i].ENDING_DATE]
                of(p) == {r \in rows : r.PLAYER = p}
            IN /\ CountsOnly(frame, rows)
               /\ \A f \in frame :
                     /\ IsMean(f.COURSE_HISTORY, SumExpectedPos(of(f.PLAYER)),
                               Cardinality(of(f.PLAYER)))
                     /\ IsLogAdjusted(f.adj_ch, f.COURSE_HISTORY,
                                      Cardinality(of(f.PLAYER)))
                     /\ ThirdThenCut(rows, f.PLAYER) =>
                           /\ f.TOTAL_EVENTS_PLAYED = 2
                           /\ f.COURSE_HISTORY = 465
                           /\ f.adj_ch = 4233

\* The course history of Event4 has been computed for P1, who finished 3 at
\* Event1 and "CUT" at Event2 on the same course, and played Event3 on
\* another course inside the lookback.
C11_Witness ==
    /\ call.op = "get_course_history"
    /\ call.arg = HistoryOf(<<Event4>>)
    /\ ThirdThenCut(Qualifying(HistoryRow(Event4), LookbackDays, TRUE), "P1")
    /\ \E r \in tournaments : r.PLAYER = "P1" /\ r.COURSE = "C2"
    /\ \E f \in call.ret[5] :
          f.PLAYER = "P1" /\ f.TOTAL_EVENTS_PLAYED = 2 /\ f.adj_ch = 4233

\* C12: in every row of the matrix that build_training_rows returns, TOP_20 is
\* 1 when the position of the row is at most 20 and 0 otherwise; a row with
\* the sentinel 90 has 0.
C12_Top20Label ==
    call.op = "build_training_rows" /\ call.outcome = "df" =>
        \A i \in DOMAIN call.ret :
            /\ call.ret[i].FINAL_POS = Some(ExpectedPos(call.ret[i].POS))
            /\ call.ret[i].TOP_20 \in {0, 1}
            /\ call.ret[i].TOP_20 = 1 <=> ExpectedPos(call.ret[i].POS) <= 20
            /\ call.ret[i].FINAL_POS = Some(90) => call.ret[i].TOP_20 = 0

\* A matrix has been returned with a row at position 20, a row at position
\* 21 and a row of a cut.
C12_Witness ==
    /\ call.op = "build_training_rows"
    /\ call.outcome = "df"
    /\ \E i, j, k \in DOMAIN call.ret :
          /\ call.ret[i].POS = Twenty /\ call.ret[i].TOP_20 = 1
          /\ call.ret[j].POS = TwentyOne /\ call.ret[j].TOP_20 = 0
          /\ call.ret[k].POS = CUT /\ call.ret[k].TOP_20 = 0

\* C13 as stated: for a fixed mean, the reported value (two decimals) for the
\* larger number of events is strictly smaller than the one for the smaller.
C13_AsStated ==
    call.op = "adj_form" => call.ret[2] < call.ret[1]

\* C13: for a fixed mean of at least 1.0, the reported value (two decimals)
\* never increases with the number of events, and it is strictly smaller as
\* long as the larger number of events is at most 16.
C13_DampingRounded ==
    call.op = "adj_form" =>
        /\ call.ret[2] <= call.ret[1]
        /\ call.arg[2].TOTAL_EVENTS_PLAYED <= 16 => call.ret[2] < call.ret[1]

\* The column has been computed for the mean 1.0 over 16 and 17 events, which
\* both report 0.35, and so it has for 1 and 2 events, which differ.
C13_Witness ==
    /\ call.op = "adj_form"
    /\ call.arg[1].RECENT_FORM = 10
    /\ call.arg[1].TOTAL_EVENTS_PLAYED = 16
    /\ call.arg[2].TOTAL_EVENTS_PLAYED = 17
    /\ call.ret = <<35, 35>>

\* C14 as stated: the matrix that build_training_rows returns has at most one
\* column named FEDEX_CUP_POINTS, and no row holds in it the points of the
\* row's own event, whether or not the events have an entry in cuts.
C14_AsStated ==
    call.op = "build_training_rows" /\ call.outcome = "df" =>
        /\ Len(PointsColumns(call.ret)) <= 1
        /\ \A i \in DOMAIN call.ret : call.ret[i].event_points = Null

\* A matrix has been returned for an event without an entry in cuts, whose
\* rows carry the event's own points, together with an event whose rolling
\* points were merged: two columns are named FEDEX_CUP_POINTS.
C14_Witness ==
    /\ call.op = "build_training_rows"
    /\ call.outcome = "df"
    /\ PointsColumns(call.ret) = <<"FEDEX_CUP_POINTS", "FEDEX_CUP_POINTS">>
    /\ \E i, j \in DOMAIN call.ret :
          /\ ~call.ret[i].cuts_merged /\ call.ret[i].event_points # Null
          /\ call.ret[j].cuts_merged /\ call.ret[j].rolling_points # Null

\* C15: a call of update_tournament_results leaves every stored tournaments
\* row as it is, also when the payload carries another position for a stored
\* key, and inserts only rows of the payload whose key was absent.
C15_AppendOnly ==
    [][/\ tournaments \subseteq tournaments'
       /\ \A r \in tournaments' \ tournaments :
             /\ TournamentKey(r) \notin {TournamentKey(x) : x \in tournaments}
             /\ IsResultsCall(call')
             /\ r.ENDING_DATE = call'.arg.config.date
             /\ r.TOURNAMENT = call'.arg.config.name
             /\ \E i \in DOMAIN call'.arg.response.players :
                   /\ call'.arg.response.players[i].displayName = r.PLAYER
                   /\ call'.arg.response.players[i].position = Some(r.POS)]_vars

\* A call has returned whose payload gave a stored key another position and
\* brought a player with a new key: the stored row kept its position and the
\* new player is stored.
C15_Witness ==
    /\ IsResultsCall(call)
    /\ call.outcome = "df"
    /\ \E i, j \in DOMAIN call.ret :
          /\ call.ret[i] \notin tournaments
          /\ \E r \in tournaments :
                /\ TournamentKey(r) = TournamentKey(call.ret[i])
                /\ r.POS # call.ret[i].POS
          /\ call.ret[j] \in tournaments
          /\ call.ret[j].PLAYER # call.ret[i].PLAYER

---------------------------------------------------------------------------
(* Block scan *)

\* The header predicate at row h of a table: own odds cell empty, the next
\* row's odds cell empty, the row two ahead a date line.
HeaderAt(rows, h) ==
    /\ h + 2 <= Len(rows)
    /\ rows[h].ODDS = Null
    /\ rows[h + 1].ODDS = Null
    /\ rows[h + 2].PLAYER.isdate

\* The nearest row before k that satisfies the header predicate, 0 if none.
HeaderOf(rows, k) ==
    LET hs == {h \in 1..(k - 1) : HeaderAt(rows, h)}
    IN IF hs = {} THEN 0 ELSE CHOOSE h \in hs : \A g \in hs : g <= h

DateLineCancelled(rows, h) == rows[h + 2].PLAYER.cancelled

NextLineCancelled(rows, h) == h + 3 <= Len(rows) /\ rows[h + 3].PLAYER.cancelled

\* The header at h repeats name and date of the nearest header before it
\* that is not cancelled.
DuplicateHeader(rows, h) ==
    LET gs == {g \in 1..(h - 1) : /\ HeaderAt(rows, g)
                                   /\ ~NextLineCancelled(rows, g)
                                   /\ ~DateLineCancelled(rows, g)}
    IN /\ gs # {}
       /\ LET g == CHOOSE x \in gs : \A y \in gs : y <= x
          IN /\ rows[g].PLAYER.text = rows[h].PLAYER.text
             /\ rows[g + 2].PLAYER.date = rows[h + 2].PLAYER.date

\* Whether the block of the header at h is left out: by the notice on its
\* date line ("date"), by the notice on the line after its date line
\* ("next"), or by either notice or by being a duplicate ("any").
LeftOut(rows, h, by) ==
    CASE by = "date" -> DateLineCancelled(rows, h)
      [] by = "next" -> NextLineCancelled(rows, h)
      [] OTHER -> \/ DateLineCancelled(rows, h)
                  \/ NextLineCancelled(rows, h)
                  \/ DuplicateHeader(rows, h)

\* The rows with an odds cell that lie in a block that is not left out, in
\* the order of the table, with the name and the date of their block.
BlockRows(rows, by) ==
    LET keep(k) == /\ rows[k].ODDS # Null
                   /\ HeaderOf(rows, k) # 0
                   /\ ~LeftOut(rows, HeaderOf(rows, k), by)
        idx == SelectSeq([k \in 1..Len(rows) |-> k], keep)
    IN [i \in 1..Len(idx) |->
          [TOURNAMENT  |-> rows[HeaderOf(rows, idx[i])].PLAYER.text,
           ENDING_DATE |-> rows[HeaderOf(rows, idx[i]) + 2].PLAYER.date,
           PLAYER      |-> rows[idx[i]].PLAYER.text,
           ODDS        |-> Get(rows[idx[i]].ODDS)]]

\* The rows that a call returned, without the derived columns.
Collected(c) ==
    IF c.outcome # "df" THEN << >>
    ELSE [i \in DOMAIN c.ret |->
            [TOURNAMENT  |-> c.ret[i].TOURNAMENT,
             ENDING_DATE |-> c.ret[i].ENDING_DATE,
             PLAYER      |-> c.ret[i].PLAYER,
             ODDS        |-> c.ret[i].ODDS]]

\* a is b with some elements removed.
RECURSIVE IsSubseq(_, _)
IsSubseq(a, b) ==
    IF a = << >> THEN TRUE
    ELSE IF b = << >> THEN FALSE
    ELSE IF Head(a) = Head(b) THEN IsSubseq(Tail(a), Tail(b))
    ELSE IsSubseq(a, Tail(b))

IsScan(c) == c.op = "import_historical_odds" /\ c.arg.page.kind = "table"

\* C16 as stated: every row with an odds cell that lies after a block header
\* that is neither cancelled nor a duplicate, up to the next header or the
\* end of the table, is in the result of import_historical_odds, the last
\* rows of the table and the rows of a short block included.
C16_AsStated ==
    IsScan(call) => IsSubseq(BlockRows(call.arg.page.rows, "any"), Collected(call))

\* A page whose table ends with the quotes of its last block has been
\* imported: the call returned the rows of the first block and none of the
\* last.
C16_Witness ==
    /\ IsScan(call)
    /\ call.outcome = "df"
    /\ call.arg.page.rows[Len(call.arg.page.rows)].ODDS # Null
    /\ Len(BlockRows(call.arg.page.rows, "any")) = 4
    /\ Len(call.ret) = 2

---------------------------------------------------------------------------
(* Season merge *)

\* No fetched table lists a player twice.
ListedOnce(fetched) ==
    \A c \in Range(Cats) :
        fetched[c].kind = "ok" =>
            \A i, j \in DOMAIN fetched[c].rows :
                i # j => fetched[c].rows[i].playerName # fetched[c].rows[j].playerName

\* C18 as stated: update_season_stats completes whatever categories fail or
\* come back without rows, the base category included; the merged frame
\* holds every player of at least one fetched table, with the rank and value
\* of each category that lists the player and missing values for the others.
C18_AsStated ==
    call.op = "update_season_stats" /\ ListedOnce(call.arg.fetched) =>
        /\ call.outcome = "df"
        /\ {call.ret[i].PLAYER : i \in DOMAIN call.ret}
              = UNION {FetchedPlayers(call.arg.fetched, c) : c \in Range(Cats)}
        /\ \A i \in DOMAIN call.ret : \A c \in Range(Cats) :
              call.ret[i].cells[c]
                  \in FetchedCells(call.arg.fetched, c, call.ret[i].PLAYER)

\* The season fetch has raised KeyError on a base category that came back
\* without rows while another category listed a player.
C18_Witness ==
    /\ call.op = "update_season_stats"
    /\ call.arg.fetched[base_stat] = Fetched(<< >>)
    /\ \E c \in Range(Cats) : FetchedPlayers(call.arg.fetched, c) # {}
    /\ call.outcome = "raised"
    /\ call.exc = "KeyError"

---------------------------------------------------------------------------
(* Cut streak *)

\* The position is not "CUT" and not "W/D".
Made(r) == r.POS # CUT /\ r.POS # WD

\* n is the length of the run of made cuts at the end of the rows, taken in
\* end-date order: the n latest rows are made cuts, and they are all the rows
\* or the row before them is a miss.
IsStreak(rows, n) ==
    \E S \in SUBSET rows :
        /\ Cardinality(S) = n
        /\ \A r \in S : Made(r)
        /\ \A r \in S : \A x \in rows \ S : x.ENDING_DATE <= r.ENDING_DATE
        /\ \/ S = rows
           \/ \E m \in rows \ S :
                 /\ ~Made(m)
                 /\ \A x \in rows \ S : x.ENDING_DATE <= m.ENDING_DATE

\* C19: in the frame that get_cut_and_fedex_history computes for an event,
\* CONSECUTIVE_CUTS of a player is the length of the run of made cuts that
\* ends at the player's latest event of the window, so that 0 <=
\* CONSECUTIVE_CUTS <= CUTS_MADE <= TOTAL_EVENTS_PLAYED, and CUT_PERCENTAGE is
\* CUTS_MADE / TOTAL_EVENTS_PLAYED x 100 to one decimal, between 0 and 100.
C19_ConsecutiveCuts ==
    call.op = "get_cut_and_fedex_history" =>
        \A i \in DOMAIN call.arg :
            \A f \in call.ret[call.arg[i].ENDING_DATE] :
                LET rows == {r \in Qualifying(call.arg[i], WindowDays, FALSE) :
                                r.PLAYER = f.PLAYER}
                IN /\ f.TOTAL_EVENTS_PLAYED = Cardinality(rows)
                   /\ f.CUTS_MADE = Cardinality({r \in rows : Made(r)})
                   /\ IsStreak(rows, f.CONSECUTIVE_CUTS)
                   /\ 0 <= f.CONSECUTIVE_CUTS
                   /\ f.CONSECUTIVE_CUTS <= f.CUTS_MADE
                   /\ f.CUTS_MADE <= f.TOTAL_EVENTS_PLAYED
                   /\ IsMean(f.CUT_PERCENTAGE, 100 * f.CUTS_MADE,
                             f.TOTAL_EVENTS_PLAYED)
                   /\ 0 <= f.CUT_PERCENTAGE /\ f.CUT_PERCENTAGE <= 1000

\* The cut history of Event5 has been computed for P1, who made the cut at
\* Event1 and withdrew at Event2 one day later: one cut made in two events,
\* no streak.
C19_Witness ==
    /\ call.op = "get_cut_and_fedex_history"
    /\ call.arg = HistoryOf(<<Event5>>)
    /\ \E r \in tournaments : r.PLAYER = "P1" /\ r.TOURNAMENT = "T1" /\ r.POS = T5
    /\ \E r \in tournaments : r.PLAYER = "P1" /\ r.TOURNAMENT = "T2" /\ r.POS = WD
    /\ \E f \in call.ret[3] :
          /\ f.PLAYER = "P1"
          /\ f.TOTAL_EVENTS_PLAYED = 2
          /\ f.CUTS_MADE = 1
          /\ f.CONSECUTIVE_CUTS = 0
          /\ f.CUT_PERCENTAGE = 500

---------------------------------------------------------------------------
(* Events of one end date *)

\* The tournaments rows of the player of a matrix row that the event of the
\* row may read: before the row's end date, within the window, at the row's
\* course when same_course.
OwnHistory(t, window, same_course) ==
    {r \in Qualifying(t, window, same_course) : r.PLAYER = t.PLAYER}

\* C20 as stated: in every row of the matrix of build_training_rows, given the
\* dicts of the feature functions for history_df, RECENT_FORM is the mean
\* position of the player in the window of the row's event, and
\* COURSE_HISTORY and adj_ch are aggregated over the player's rows at the
\* course of the row's event, also when another event of history_df has the
\* same end date and another course.
C20_AsStated ==
    call.op = "build_training_rows" /\ call.outcome = "df" =>
        \A i \in DOMAIN call.ret :
            LET t    == call.ret[i]
                form == OwnHistory(t, WindowDays, FALSE)
                hist == OwnHistory(t, LookbackDays, TRUE)
            IN /\ t.FORM = Null <=> form = {}
               /\ t.FORM # Null =>
                     IsMean(Get(t.FORM).RECENT_FORM, SumExpectedPos(form),
                            Cardinality(form))
               /\ t.COURSE_HIST = Null <=> hist = {}
               /\ t.COURSE_HIST # Null /\ hist # {} =>
                     /\ IsMean(Get(t.COURSE_HIST).COURSE_HISTORY,
                               SumExpectedPos(hist), Cardinality(hist))
                     /\ IsLogAdjusted(Get(t.COURSE_HIST).adj_ch,
                                      Get(t.COURSE_HIST).COURSE_HISTORY,
                                      Cardinality(hist))

\* A matrix has been returned for Event2 and Event3, which end on one day on
\* two courses: P1, who finished 5 on the course of Event2 and missed the
\* cut on the course of Event3 the day before, has the course history 90.0
\* in the row of Event2.
C20_Witness ==
    /\ call.op = "build_training_rows"
    /\ call.outcome = "df"
    /\ call.arg.history_df = HistoryOf(<<Event2, Event3>>)
    /\ \E r \in tournaments : r.TOURNAMENT = "T1" /\ r.PLAYER = "P1" /\ r.POS = T5
    /\ \E r \in tournaments : r.TOURNAMENT = "T5" /\ r.PLAYER = "P1" /\ r.POS = CUT
    /\ \E i \in DOMAIN call.ret :
          /\ call.ret[i].TOURNAMENT = "T2"
          /\ call.ret[i].COURSE = "C1"
          /\ call.ret[i].PLAYER = "P1"
          /\ call.ret[i].COURSE_HIST # Null
          /\ Get(call.ret[i].COURSE_HIST).COURSE_HISTORY = 900

====
